---------------------------- MODULE Spec2Model ----------------------------
(***************************************************************************)
(* FIFO lot matching and the rate table of calc_ib_taxes.py.               *)
(*                                                                         *)
(* A datetime is an integer count of half-days: day k starts (midnight) at *)
(* tick 2*k and tick 2*k+1 is a time of day inside day k; tick 0 is        *)
(* 2019-12-23 00:00:00, which puts the split date at tick 2.  Prices and   *)
(* rates are decimal.Decimal values, modelled as integers of the smallest  *)
(* unit; the code only multiplies, adds and subtracts them.                *)
(*                                                                         *)
(* Python objects: a Trade owns one list object, created by Trade.__init__ *)
(* (self.sold_buyings = []).  copy.copy is a shallow copy, so a copy keeps *)
(* a reference to the list of the object it was copied from.  The lists    *)
(* live in the variable heap, indexed by the position of the               *)
(* constructing trade in the input; a Trade record's field sold_buyings is *)
(* that reference.                                                         *)
(***************************************************************************)
EXTENDS Integers, Sequences, FiniteSets

\* Longest input trade list.
MaxTrades == 3

\* Largest absolute value of a report record's Quantity.
MaxQty == 2

\* Most lines of the rate feed data/usd_rub.dat.
MaxSamples == 3

\* Latest calendar day a feed line or a lookup names.
MaxDay == 4

\* Most dividend and withholding events of a report, taken together.
MaxEvents == 4

\* Latest calendar day of a dividend or withholding record.
MaxDivDay == 1

\* The split date of trade_from_report_rec ('2019-12-24', midnight), in ticks.
SplitDate == 2

\* Symbols differ in case only: the code compares them with ==.
Symbols == {"SGOL", "sgol"}

\* A report record's Quantity is signed: negative is a sale.
Quantities == (0 - MaxQty)..MaxQty

VARIABLES
  trades,          \* the caller's list of Trade objects, in input order
  heap,            \* heap[i]: the list object Trade.__init__ made for trades[i]
  pc,              \* position in do_the_thing
  sales,           \* do_the_thing: sales
  buyings,         \* do_the_thing: buyings
  si,              \* index in sales of s, the sale of the outer loop
  cands,           \* the inner loop's list, as indices into buyings
  ci,              \* index in cands of b_from
  amount_to_find,  \* do_the_thing: amount_to_find
  first,           \* what an earlier call on the same objects yielded
  feed,            \* the lines of data/usd_rub.dat: [day, rate]
  usd_rub_exchange_rate_for_date,  \* the module-level dict, key -> rate
  rpc,             \* position in get_usd_rub_exchange_rate_for_date
  query,           \* its argument d
  li,              \* index in feed of the line being read
  prev,            \* <<prev_date, prev_rate>>, or <<>> for None, None
  out,             \* how the last lookup ended
  divs,            \* main: divs, the MoneyInOut objects of the dividends
  withholdings,    \* main: withholdings, those of the withholding tax
  wheap,           \* wheap[r]: the list object a withholdings field refers to
  dpc,             \* position in calc_divs
  di,              \* index in raw_divs of d1
  res,             \* calc_divs: res
  ppc,             \* position in the loop of main over the sales
  ri,              \* index in sales of t
  report           \* the figures main has printed, one record per sale

mvars == <<trades, heap, pc, sales, buyings, si, cands, ci, amount_to_find, first>>

rvars == <<feed, usd_rub_exchange_rate_for_date, rpc, query, li, prev, out>>

dvars == <<divs, withholdings, wheap, dpc, di, res>>

pvars == <<ppc, ri, report>>

vars == <<mvars, rvars, dvars, pvars>>

--------------------------------------------------------------------------
\* Helpers

Min(a, b) == IF a <= b THEN a ELSE b

Abs(x) == IF x < 0 THEN 0 - x ELSE x

RECURSIVE SumAmounts(_)
SumAmounts(seq) ==
  IF seq = <<>> THEN 0 ELSE Head(seq).amount + SumAmounts(Tail(seq))

Indices(seq) == [i \in 1..Len(seq) |-> i]

--------------------------------------------------------------------------
\* Trade construction

\* Trade.__init__: the fields as given; ref names the fresh list object.
Trade(date, kind, symbol, amount, price, ref) ==
  [date |-> date, kind |-> kind, symbol |-> symbol, amount |-> amount,
   price |-> price, sold_buyings |-> ref]

\* trade_from_report_rec: the side from the sign of Quantity, the amount its
\* absolute value, ten times that for SGOL before the split.
trade_from_report_rec(rec, ref) ==
  LET q == rec.Quantity
      t == Trade(rec.DateTime, IF q < 0 THEN "sell" ELSE "buy", rec.Symbol,
                 Abs(q), rec.TPrice, ref)
  IN  IF t.symbol = "SGOL" /\ t.date < SplitDate
      THEN [t EXCEPT !.amount = @ * 10]
      ELSE t

\* The i-th record of a report: load_data_from_dir leaves the trades sorted by
\* time, so the i-th trade's time is tick i; its price is 10 * i, which tells
\* the trades apart.
ReportRec(i, q, sym) ==
  [DateTime |-> i, Quantity |-> q, Symbol |-> sym, TPrice |-> 10 * i]

--------------------------------------------------------------------------
\* do_the_thing

\* sales = [copy.copy(t) for t in trades if t.kind == 'sell']
SellCopies(ts) == SelectSeq(ts, LAMBDA t : t.kind = "sell")

\* buyings = [copy.copy(t) for t in trades if t.kind == 'buy']
BuyCopies(ts) == SelectSeq(ts, LAMBDA t : t.kind = "buy")

\* x.symbol == s.symbol
SameSymbol(x, s) == x.symbol = s.symbol

RECURSIVE Reverse(_)
Reverse(seq) == IF seq = <<>> THEN <<>> ELSE Append(Reverse(Tail(seq)), Head(seq))

\* Mutant of Candidates: the newest lot first.
Candidates_newest_first(bs, s) ==
  Reverse(SelectSeq(Indices(bs), LAMBDA k : SameSymbol(bs[k], s)))

\* [x for x in buyings if x.symbol == s.symbol], as indices into buyings
Candidates(bs, s) == SelectSeq(Indices(bs), LAMBDA k : SameSymbol(bs[k], s))

\* Mutant of TakeAmount: the whole lot, whatever is still to find.
TakeAmount_whole_lot(b_from, atf) == b_from.amount

\* min(b_from.amount, amount_to_find)
TakeAmount(b_from, atf) == Min(b_from.amount, atf)

\* b = copy.copy(b_from); b.amount = min(...)
Fragment(b_from, atf) == [b_from EXCEPT !.amount = TakeAmount(b_from, atf)]

\* Mutant of Remaining: a lot of quantity 1 is dropped too.
Remaining_above_one(bs) == SelectSeq(bs, LAMBDA b : b.amount > 1)

\* Mutant of Remaining: nothing is dropped.
Remaining_keeps_all(bs) == bs

\* [b for b in buyings if b.amount > 0]
Remaining(bs) == SelectSeq(bs, LAMBDA b : b.amount > 0)

\* Mutant of NotEnough: a shortfall of 1 passes.
NotEnough_above_one(atf) == atf > 1

\* if amount_to_find > 0: raise
NotEnough(atf) == atf > 0

\* if amount_to_find <= 0: break
Found(atf) == atf <= 0

NoResult == [outcome |-> "none"]

\* What a returned call hands to its caller, lists read at that moment.
Result ==
  [outcome |-> "returned",
   sales |-> [i \in 1..Len(sales) |->
                [trade |-> sales[i], sold_buyings |-> heap[sales[i].sold_buyings]]],
   buyings |-> buyings]

\* usd_rub_exchange_rate_for_date = {}
EmptyDict == [k \in {} |-> 0]

\* No lookup has been made: the dict is as line 103 leaves it.
RatesIdle ==
  /\ usd_rub_exchange_rate_for_date = EmptyDict
  /\ rpc = "idle"
  /\ query = 0
  /\ li = 0
  /\ prev = <<>>
  /\ out = [kind |-> "none"]

\* No dividend has been loaded and calc_divs has not been called.
DivsIdle ==
  /\ divs = <<>>
  /\ withholdings = <<>>
  /\ wheap = <<>>
  /\ dpc = "ready"
  /\ di = 0
  /\ res = <<>>

\* main has printed no sale.
ReportIdle ==
  /\ ppc = "for_t"
  /\ ri = 1
  /\ report = <<>>

Init ==
  /\ DivsIdle
  /\ ReportIdle
  /\ \E n \in 0..MaxTrades :
       \E qs \in [1..n -> Quantities], ss \in [1..n -> Symbols] :
         /\ trades = [i \in 1..n |-> trade_from_report_rec(ReportRec(i, qs[i], ss[i]), i)]
         /\ heap = [i \in 1..n |-> <<>>]
  /\ pc = "ready"
  /\ sales = <<>>
  /\ buyings = <<>>
  /\ si = 0
  /\ cands = <<>>
  /\ ci = 0
  /\ amount_to_find = 0
  /\ first = NoResult
  /\ RatesIdle
  /\ feed = <<>>

\* lines 76-77: the two lists of shallow copies
Call ==
  /\ pc = "ready"
  /\ sales' = SellCopies(trades)
  /\ buyings' = BuyCopies(trades)
  /\ si' = 1
  /\ pc' = "for_s"
  /\ UNCHANGED <<trades, heap, cands, ci, amount_to_find, first>>
  /\ UNCHANGED <<rvars, dvars, pvars>>

\* lines 78-80: the next sale, and the list the inner loop walks
NextSale ==
  /\ pc = "for_s"
  /\ si <= Len(sales)
  /\ amount_to_find' = sales[si].amount
  /\ cands' = Candidates(buyings, sales[si])
  /\ ci' = 1
  /\ pc' = IF cands' = <<>> THEN "filter" ELSE "for_b"
  /\ UNCHANGED <<trades, heap, sales, buyings, si, first>>
  /\ UNCHANGED <<rvars, dvars, pvars>>

\* lines 81-87: one pass of the inner loop
Take ==
  /\ pc = "for_b"
  /\ ci <= Len(cands)
  /\ LET k == cands[ci]
         b_from == buyings[k]
         b == Fragment(b_from, amount_to_find)
     IN  /\ buyings' = [buyings EXCEPT ![k].amount = @ - b.amount]
         /\ amount_to_find' = amount_to_find - b.amount
         /\ heap' = [heap EXCEPT ![sales[si].sold_buyings] = Append(@, b)]
  /\ IF Found(amount_to_find') \/ ci = Len(cands)
     THEN pc' = "filter" /\ ci' = ci
     ELSE pc' = "for_b" /\ ci' = ci + 1
  /\ UNCHANGED <<trades, sales, si, cands, first>>
  /\ UNCHANGED <<rvars, dvars, pvars>>

\* lines 88-90: drop the consumed lots, then raise or go on
EndSale ==
  /\ pc = "filter"
  /\ buyings' = Remaining(buyings)
  /\ IF NotEnough(amount_to_find)
     THEN pc' = "raised" /\ si' = si
     ELSE pc' = "for_s" /\ si' = si + 1
  /\ UNCHANGED <<trades, heap, sales, cands, ci, amount_to_find, first>>
  /\ UNCHANGED <<rvars, dvars, pvars>>

\* line 91
Return ==
  /\ pc = "for_s"
  /\ si > Len(sales)
  /\ pc' = "returned"
  /\ UNCHANGED <<trades, heap, sales, buyings, si, cands, ci, amount_to_find, first>>
  /\ UNCHANGED <<rvars, dvars, pvars>>

Next == Call \/ NextSale \/ Take \/ EndSale \/ Return

Spec == Init /\ [][Next]_vars

\* A second call of do_the_thing with the same list of the same objects.
CallAgain ==
  /\ pc \in {"returned", "raised"}
  /\ first = NoResult
  /\ first' = IF pc = "returned" THEN Result ELSE [outcome |-> "raised"]
  /\ sales' = SellCopies(trades)
  /\ buyings' = BuyCopies(trades)
  /\ si' = 1
  /\ pc' = "for_s"
  /\ UNCHANGED <<trades, heap, cands, ci, amount_to_find>>
  /\ UNCHANGED <<rvars, dvars, pvars>>

NextRepeat == Next \/ CallAgain

SpecRepeat == Init /\ [][NextRepeat]_vars

--------------------------------------------------------------------------
\* get_usd_rub_exchange_rate_for_date

\* d2key: strftime('%d.%m.%Y') names the calendar day and drops the time.
d2key(d) == d \div 2

\* datetime.datetime.strptime(date_str, '%d.%m.%Y'): midnight of that day
strptime(day) == 2 * day

\* (curr_date - prev_date).days
DaysBetween(curr_date, prev_date) == (curr_date - prev_date) \div 2

\* prev_date + datetime.timedelta(days=n)
PlusDays(d, n) == d + 2 * n

\* dict[k] = v
Put(dict, k, v) ==
  [x \in DOMAIN dict \cup {k} |-> IF x = k THEN v ELSE dict[x]]

\* Mutant of FillRate: the later sample's rate.
FillRate_later(prev_rate, curr_rate) == curr_rate

\* The rate written for a day between two samples (line 120).
FillRate(prev_rate, curr_rate) == prev_rate

\* range((curr_date - prev_date).days - 1)
FillRange(curr_date, prev_date) == 0..(DaysBetween(curr_date, prev_date) - 2)

\* lines 117-120: every day strictly between the two samples
FillGap(dict, prev_date, prev_rate, curr_date, curr_rate) ==
  LET ks == {d2key(PlusDays(prev_date, delta + 1)) :
               delta \in FillRange(curr_date, prev_date)}
  IN  [x \in DOMAIN dict \cup ks |->
         IF x \in ks THEN FillRate(prev_rate, curr_rate) ELSE dict[x]]

\* lines 114-121: what one line of the file does to the dict
ReadSample(dict, pv, line) ==
  LET curr_rate == line.rate
      curr_date == strptime(line.day)
      filled == IF pv # <<>> /\ DaysBetween(curr_date, pv[1]) > 1
                THEN FillGap(dict, pv[1], pv[2], curr_date, curr_rate)
                ELSE dict
  IN  Put(filled, d2key(curr_date), curr_rate)

\* The i-th line's rate: 60 + i, which tells the samples apart.
FeedLine(i, day) == [day |-> day, rate |-> 60 + i]

\* No trade has been loaded and do_the_thing has not been called.
MatcherIdle ==
  /\ trades = <<>>
  /\ heap = <<>>
  /\ pc = "ready"
  /\ sales = <<>>
  /\ buyings = <<>>
  /\ si = 0
  /\ cands = <<>>
  /\ ci = 0
  /\ amount_to_find = 0
  /\ first = NoResult

InitRates ==
  /\ MatcherIdle
  /\ DivsIdle
  /\ ReportIdle
  /\ RatesIdle
  /\ \E n \in 0..MaxSamples :
       \E ds \in [1..n -> 0..MaxDay] :
         feed = [i \in 1..n |-> FeedLine(i, ds[i])]

\* Mutant of Lookup: the file is read again at every call.
Lookup_reads_again ==
  /\ rpc = "idle"
  /\ \E d \in 0..(2 * MaxDay + 1) : query' = d
  /\ rpc' = "build" /\ li' = 1 /\ prev' = <<>>
  /\ out' = [kind |-> "none"]
  /\ UNCHANGED <<feed, usd_rub_exchange_rate_for_date>>
  /\ UNCHANGED <<mvars, dvars, pvars>>

\* lines 106-110: the call, and whether the file is read
Lookup ==
  /\ rpc = "idle"
  /\ \E d \in 0..(2 * MaxDay + 1) : query' = d
  /\ IF Cardinality(DOMAIN usd_rub_exchange_rate_for_date) <= 0
     THEN rpc' = "build" /\ li' = 1 /\ prev' = <<>>
     ELSE rpc' = "find" /\ UNCHANGED <<li, prev>>
  /\ out' = [kind |-> "none"]
  /\ UNCHANGED <<feed, usd_rub_exchange_rate_for_date>>
  /\ UNCHANGED <<mvars, dvars, pvars>>

\* lines 113-123: one line of the file
ReadLine ==
  /\ rpc = "build"
  /\ li <= Len(feed)
  /\ usd_rub_exchange_rate_for_date' =
       ReadSample(usd_rub_exchange_rate_for_date, prev, feed[li])
  /\ prev' = <<strptime(feed[li].day), feed[li].rate>>
  /\ li' = li + 1
  /\ UNCHANGED <<feed, rpc, query, out>>
  /\ UNCHANGED <<mvars, dvars, pvars>>

\* the end of the file
EndBuild ==
  /\ rpc = "build"
  /\ li > Len(feed)
  /\ rpc' = "find"
  /\ UNCHANGED <<feed, usd_rub_exchange_rate_for_date, query, li, prev, out>>
  /\ UNCHANGED <<mvars, dvars, pvars>>

\* Mutant of Find: a missing key gives the rate of the nearest earlier day,
\* or 1 when there is none.
Find_nearest_or_one ==
  /\ rpc = "find"
  /\ LET dict == usd_rub_exchange_rate_for_date
         before == {k \in DOMAIN dict : k <= d2key(query)}
         near == CHOOSE k \in before : \A j \in before : j <= k
     IN  out' = [kind |-> "rate",
                 rate |-> IF before = {} THEN 1 ELSE dict[near]]
  /\ rpc' = "idle"
  /\ UNCHANGED <<feed, usd_rub_exchange_rate_for_date, query, li, prev>>
  /\ UNCHANGED <<mvars, dvars, pvars>>

\* lines 124-125: the dict lookup, which raises KeyError for a missing key
Find ==
  /\ rpc = "find"
  /\ out' = IF d2key(query) \in DOMAIN usd_rub_exchange_rate_for_date
            THEN [kind |-> "rate", rate |-> usd_rub_exchange_rate_for_date[d2key(query)]]
            ELSE [kind |-> "KeyError"]
  /\ rpc' = "idle"
  /\ UNCHANGED <<feed, usd_rub_exchange_rate_for_date, query, li, prev>>
  /\ UNCHANGED <<mvars, dvars, pvars>>

NextRates == Lookup \/ ReadLine \/ EndBuild \/ Find

SpecRates == InitRates /\ [][NextRates]_vars

--------------------------------------------------------------------------
\* Readings of the state used by the properties

\* The fragments recorded for sale i: the list its sold_buyings refers to.
Frags(i) == heap[sales[i].sold_buyings]

RECURSIVE Flat(_, _)
Flat(h, n) == IF n = 0 THEN <<>> ELSE Flat(h, n - 1) \o h[n]

\* Every fragment in every list, in heap order.
AllFrags == Flat(heap, Len(trades))

\* The quantity taken so far from the lot copied from trades[j]: a fragment
\* keeps the reference to its lot's list, which names the lot.
Consumed(j) ==
  SumAmounts(SelectSeq(AllFrags, LAMBDA f : f.sold_buyings = j))

OfSymbol(seq, sym) == SelectSeq(seq, LAMBDA t : t.symbol = sym)

AllPositive == \A i \in 1..Len(trades) : trades[i].amount > 0

Sorted == \A i, j \in 1..Len(trades) : i < j => trades[i].date <= trades[j].date

\* The quantity recorded for the sales of one symbol.
RECURSIVE FragsOfSales(_, _)
FragsOfSales(n, sym) ==
  IF n = 0 THEN 0
  ELSE FragsOfSales(n - 1, sym)
       + (IF sales[n].symbol = sym THEN SumAmounts(Frags(n)) ELSE 0)

\* The quantity of the sales of sale i's symbol that come before sale i.
RECURSIVE SoldBefore(_, _)
SoldBefore(i, n) ==
  IF n = 0 THEN 0
  ELSE SoldBefore(i, n - 1)
       + (IF sales[n].symbol = sales[i].symbol THEN sales[n].amount ELSE 0)

\* Sale i asks for more than the same-symbol lots hold when its turn comes,
\* the sales before it having been filled.
Exceeds(i) ==
  sales[i].amount >
    SumAmounts(OfSymbol(BuyCopies(trades), sales[i].symbol)) - SoldBefore(i, i - 1)

--------------------------------------------------------------------------
\* C1: when do_the_thing returns for trades of positive quantity, it returns
\* one result per input sell, in input order, each with the sell's quantity
\* and with fragment quantities that sum to that quantity.
C1_Exactness ==
  (pc = "returned" /\ AllPositive) =>
     /\ sales = SelectSeq(trades, LAMBDA t : t.kind = "sell")
     /\ \A i \in 1..Len(sales) : SumAmounts(Frags(i)) = sales[i].amount

C1_Witness ==
  /\ pc = "returned"
  /\ AllPositive
  /\ \E i \in 1..Len(sales) : Len(Frags(i)) = 2

\* C2: after every processed sale and at return, for every symbol the input
\* buy quantity equals the recorded fragment quantity of that symbol's sales
\* plus the quantity of that symbol's lots still in the pool.
C2_Conservation ==
  pc \in {"for_s", "returned"} =>
     \A sym \in Symbols :
        SumAmounts(OfSymbol(SelectSeq(trades, LAMBDA t : t.kind = "buy"), sym))
          = FragsOfSales(Len(sales), sym) + SumAmounts(OfSymbol(buyings, sym))

C2_Witness ==
  /\ pc = "for_s"
  /\ si = 2
  /\ Len(sales) = 2
  /\ Frags(1) # <<>>
  /\ buyings # <<>>

\* C3: for input sorted by time, a sale's fragments come from lots in
\* non-decreasing buy time, a lot contributes only when every earlier lot of
\* its symbol is fully consumed, and every fragment of a sale but its last
\* empties its lot.
C3_FifoOrder ==
  Sorted =>
     /\ \A i \in 1..Len(sales) : \A j, k \in 1..Len(Frags(i)) :
           j < k => Frags(i)[j].date <= Frags(i)[k].date
     /\ \A n \in 1..Len(AllFrags) : \A e \in 1..Len(trades) :
           ( /\ e < AllFrags[n].sold_buyings
             /\ trades[e].kind = "buy"
             /\ trades[e].symbol = AllFrags[n].symbol )
           => Consumed(e) = trades[e].amount
     /\ \A i \in 1..Len(sales) : \A j \in 1..(Len(Frags(i)) - 1) :
           Consumed(Frags(i)[j].sold_buyings) = trades[Frags(i)[j].sold_buyings].amount

C3_Witness ==
  /\ pc = "returned"
  /\ \E i \in 1..Len(sales) :
        /\ Len(Frags(i)) = 2
        /\ Frags(i)[1].date < Frags(i)[2].date
        /\ Consumed(Frags(i)[2].sold_buyings) < trades[Frags(i)[2].sold_buyings].amount

\* C4: a sale that asks for more than the unconsumed same-symbol lots hold
\* makes the call fail: the call never goes past such a sale, so it returns
\* nothing and records nothing for the sales after it, and it ends only by
\* returning or by raising.
C4_InsufficientLots ==
  /\ pc # "ready" => \A i \in 1..Len(sales) : (i < si => ~Exceeds(i))
  /\ pc = "raised" =>
        /\ Exceeds(si)
        /\ \A j \in 1..Len(sales) : j > si => Frags(j) = <<>>
  /\ ~(ENABLED Next) => pc \in {"returned", "raised"}

C4_Witness ==
  /\ pc = "raised"
  /\ si < Len(sales)
  /\ Frags(si) # <<>>

\* C5: no fragment of a returned result has a buy time later than its
\* sale's time (a sale is funded only by earlier buys).
C5_PriorBuysOnly ==
  pc = "returned" =>
     \A i \in 1..Len(sales) : \A j \in 1..Len(Frags(i)) :
        Frags(i)[j].date <= sales[i].date

\* C6: after the call, returned or failed, every input Trade has the
\* sold_buyings contents it had before the call (empty: the trades are
\* freshly constructed); the amounts of the input trades never change.
C6_InputsNotMutated ==
  pc \in {"returned", "raised"} =>
     \A i \in 1..Len(trades) : heap[i] = <<>>

\* C7: a second call on the same list of the same Trade objects yields what
\* the first call yielded: the same sales with the same fragments and the
\* same remaining lots.
C7_Deterministic ==
  (pc = "returned" /\ first # NoResult) => Result = first

\* Every fragment of a sale has the sale's symbol.
C8_FragmentSymbols ==
  \A i \in 1..Len(sales) : \A j \in 1..Len(Frags(i)) :
     Frags(i)[j].symbol = sales[i].symbol

\* A step taken while a sale is processed leaves the other symbols' lots alone.
C8_OtherLotsUnchanged ==
  pc \in {"for_b", "filter"} =>
     \A sym \in Symbols \ {sales[si].symbol} :
        OfSymbol(buyings', sym) = OfSymbol(buyings, sym)

\* C8: every fragment of a sale has the sale's symbol, and while a sale of
\* symbol X is processed the lots of every other symbol stay in the pool
\* with their quantities.
C8_SymbolIsolation == [](C8_FragmentSymbols) /\ [][C8_OtherLotsUnchanged]_vars

\* C9: no trade of quantity 0 reaches the matcher, so no lot of quantity 0 is
\* processed and no fragment of quantity 0 is recorded.
C9_NoZeroQuantity ==
  /\ pc # "ready" => \A i \in 1..Len(trades) : trades[i].amount # 0
  /\ \A n \in 1..Len(AllFrags) : AllFrags[n].amount # 0

--------------------------------------------------------------------------
\* Readings of the rate table

\* The feed's dates increase strictly from line to line.
Increasing == \A i, j \in 1..Len(feed) : i < j => feed[i].day < feed[j].day

\* The file has been read to its end into the dict.
Built == rpc # "build" /\ DOMAIN usd_rub_exchange_rate_for_date # {}

\* The rate of the latest sample dated on or before the day.
LatestRate(day) ==
  LET on == {i \in 1..Len(feed) : feed[i].day <= day}
      last == CHOOSE i \in on : \A j \in on : feed[j].day <= feed[i].day
  IN  feed[last].rate

\* The days from the first sample's to the last sample's.
Covered == feed[1].day .. feed[Len(feed)].day

\* C10: built from samples in strictly increasing date order, the table has
\* an entry for every day from the first sample's to the last sample's, and
\* the rate returned for such a day is that of the latest sample on or
\* before it.
C10_ForwardFill ==
  (Increasing /\ feed # <<>> /\ Built) =>
     /\ \A day \in Covered :
           /\ day \in DOMAIN usd_rub_exchange_rate_for_date
           /\ usd_rub_exchange_rate_for_date[day] = LatestRate(day)
     /\ (rpc = "idle" /\ out.kind # "none" /\ d2key(query) \in Covered) =>
           out = [kind |-> "rate", rate |-> LatestRate(d2key(query))]

\* A lookup at a time of day inside a gap of three days returned a rate.
C10_Witness ==
  /\ Increasing
  /\ rpc = "idle"
  /\ out.kind = "rate"
  /\ query % 2 = 1
  /\ \E i \in 1..(Len(feed) - 1) :
        /\ feed[i + 1].day = feed[i].day + 3
        /\ d2key(query) = feed[i].day + 2

\* The days of the feed's samples.
SampleDays == {feed[i].day : i \in 1..Len(feed)}

\* The day is before every sample's day, or after every sample's day, or
\* there is no sample at all.
Outside(day) ==
  \/ \A x \in SampleDays : day < x
  \/ \A x \in SampleDays : day > x

\* C11: a lookup for a date before the first sample date, after the last
\* sample date, or with an empty feed, ends with the not-found error and
\* never with a rate.
C11_OutsideIsError ==
  (rpc = "idle" /\ out.kind # "none" /\ Outside(d2key(query))) =>
     out = [kind |-> "KeyError"]

\* A lookup for a day after the last sample's ended with the error, and so
\* did not take the last sample's rate.
C11_Witness ==
  /\ rpc = "idle"
  /\ feed # <<>>
  /\ \A x \in SampleDays : d2key(query) > x
  /\ out.kind = "KeyError"

RECURSIVE TableAfter(_)
\* The dict after the loop of lines 113-123 has read the first n lines.
TableAfter(n) ==
  IF n = 0 THEN EmptyDict
  ELSE ReadSample(TableAfter(n - 1),
                  IF n = 1 THEN <<>>
                  ELSE <<strptime(feed[n - 1].day), feed[n - 1].rate>>,
                  feed[n])

\* C12: the table built from a feed depends on the feed alone, whichever
\* lookup caused it to be built; once it is populated no lookup, successful
\* or failing, changes it or starts another build, and a returned rate is
\* the table's rate for the date.
C12_BuiltOnce ==
  /\ [](Built => usd_rub_exchange_rate_for_date = TableAfter(Len(feed)))
  /\ [][Built => (Built' /\ usd_rub_exchange_rate_for_date'
                               = usd_rub_exchange_rate_for_date)]_vars
  /\ []((rpc = "idle" /\ out.kind = "rate") =>
          out.rate = usd_rub_exchange_rate_for_date[d2key(query)])

\* The populated table has served a failing lookup.
C12_Witness ==
  /\ Built
  /\ rpc = "idle"
  /\ out.kind = "KeyError"
  /\ Cardinality(DOMAIN usd_rub_exchange_rate_for_date) > Len(feed)

---------------------------------------------------------------------------
\* Dividends and withholding tax: MoneyInOut, load_data_from_dir, calc_divs

\* The characters of the Description column, with their code points.
Ord(c) ==
  CASE c = " " -> 32
    [] c = "(" -> 40
    [] c = ")" -> 41
    [] c = "X" -> 88
    [] c = "Y" -> 89
    [] c = "a" -> 97
    [] c = "b" -> 98

\* The Description column of a record, character by character.
Descriptions ==
  { <<"X", "(", "a", ")">>,
    <<"X", " ", "(", "b", ")">>,
    <<"Y", "(", "a", ")">> }

\* str.partition(sep)[0]: the text before the first sep, all of it if none.
RECURSIVE partition_head(_, _)
partition_head(str, sep) ==
  IF str = <<>> \/ Head(str) = sep THEN <<>>
  ELSE <<Head(str)>> \o partition_head(Tail(str), sep)

\* str.strip(): the text without its leading and trailing blanks.
RECURSIVE strip(_)
strip(str) ==
  IF str = <<>> THEN <<>>
  ELSE IF Head(str) = " " THEN strip(Tail(str))
  ELSE IF str[Len(str)] = " " THEN strip(SubSeq(str, 1, Len(str) - 1))
  ELSE str

\* The comparison of two str values: by code point, a prefix first.
RECURSIVE StrLess(_, _)
StrLess(a, b) ==
  IF b = <<>> THEN FALSE
  ELSE IF a = <<>> THEN TRUE
  ELSE IF Head(a) # Head(b) THEN Ord(Head(a)) < Ord(Head(b))
  ELSE StrLess(Tail(a), Tail(b))

\* A record of the Dividends or of the Withholding Tax table.  The amount
\* depends on the position only: dividends are received, tax is withheld.
MoneyRec(i, day, description, reason) ==
  [Date |-> day, Description |-> description,
   Amount |-> IF reason = "Dividend" THEN 10 * i ELSE 0 - 2 ^ (i - 1)]

\* MoneyInOut.__init__; ref names the fresh list object of withholdings.
MoneyInOut(rec, reason, ref) ==
  [reason |-> reason,
   date |-> strptime(rec.Date),
   key |-> rec.Description,
   symbol |-> strip(partition_head(rec.Description, "(")),
   amount |-> rec.Amount,
   withholdings |-> ref]

\* The order of list.sort(key=lambda x: (x.date, x.symbol)).
KeyLeq(x, y) ==
  \/ x.date < y.date
  \/ x.date = y.date /\ ~StrLess(y.symbol, x.symbol)

SortedByKey(list) ==
  \A i \in 1..Len(list) : \A j \in 1..Len(list) :
     i < j => KeyLeq(list[i], list[j])

\* load_data_from_dir: the two lists of MoneyInOut objects, each sorted by
\* date and symbol, every object with an empty list of its own.
Loaded(nd, nw, day, description) ==
  /\ divs = [i \in 1..nd |->
       MoneyInOut(MoneyRec(i, day[i], description[i], "Dividend"), "Dividend", i)]
  /\ withholdings = [j \in 1..nw |->
       MoneyInOut(MoneyRec(j, day[nd + j], description[nd + j], "Withholding"),
                  "Withholding", nd + j)]
  /\ wheap = [r \in 1..(nd + nw) |-> <<>>]
  /\ SortedByKey(divs)
  /\ SortedByKey(withholdings)

InitDivs ==
  /\ MatcherIdle
  /\ RatesIdle
  /\ ReportIdle
  /\ feed = <<>>
  /\ \E nd \in 0..MaxEvents : \E nw \in 0..(MaxEvents - nd) :
       \E day \in [1..(nd + nw) -> 0..MaxDivDay] :
         \E description \in [1..(nd + nw) -> Descriptions] :
            Loaded(nd, nw, day, description)
  /\ dpc = "ready"
  /\ di = 0
  /\ res = <<>>

\* A join on the symbol alone.
Matches_symbol_only(w, d2) == w.symbol = d2.symbol

\* The condition of the list comprehension of calc_divs.
Matches(w, d2) == w.symbol = d2.symbol /\ w.date = d2.date

\* [w for w in withholdings if ...]: the matching objects, named by their
\* position in withholdings, in the order of that list.
Matching(d2) ==
  SelectSeq(Indices(withholdings), LAMBDA j : Matches(withholdings[j], d2))

\* calc_divs is called: res = []
CalcDivs ==
  /\ dpc = "ready"
  /\ dpc' = "for_d"
  /\ di' = 1
  /\ res' = <<>>
  /\ UNCHANGED <<divs, withholdings, wheap>>
  /\ UNCHANGED <<mvars, rvars, pvars>>

\* One turn of the loop: d2 is a shallow copy of d1, its withholdings field
\* is bound to a new list, and d2 is appended to res.
JoinOne ==
  /\ dpc = "for_d"
  /\ di <= Len(divs)
  /\ wheap' = Append(wheap, Matching(divs[di]))
  /\ res' = Append(res, [divs[di] EXCEPT !.withholdings = Len(wheap) + 1])
  /\ di' = di + 1
  /\ UNCHANGED <<divs, withholdings, dpc>>
  /\ UNCHANGED <<mvars, rvars, pvars>>

\* return res
CalcDivsReturn ==
  /\ dpc = "for_d"
  /\ di > Len(divs)
  /\ dpc' = "done"
  /\ UNCHANGED <<divs, withholdings, wheap, di, res>>
  /\ UNCHANGED <<mvars, rvars, pvars>>

NextDivs == CalcDivs \/ JoinOne \/ CalcDivsReturn

SpecDivs == InitDivs /\ [][NextDivs]_vars

\* The list of withholdings a record refers to.
WithholdingsOf(d) == wheap[d.withholdings]

\* main: withholdings_total = abs(sum([w.amount for w in div.withholdings]))
withholdings_total(div) ==
  Abs(SumAmounts([k \in 1..Len(WithholdingsOf(div)) |->
                    withholdings[WithholdingsOf(div)[k]]]))

---------------------------------------------------------------------------
\* Readings of the dividend state

\* The withholding events of the input with the symbol and the date of d.
SameSymbolAndDate(d) ==
  {j \in 1..Len(withholdings) :
     withholdings[j].symbol = d.symbol /\ withholdings[j].date = d.date}

\* The members of a sequence.
Range(seq) == {seq[k] : k \in 1..Len(seq)}

\* A sequence of positions in the order of the input, none twice.
InInputOrder(seq) ==
  \A k \in 1..Len(seq) : \A l \in 1..Len(seq) : k < l => seq[k] < seq[l]

\* The input objects are as load_data_from_dir made them.
InputsAsLoaded ==
  /\ \A i \in 1..Len(divs) :
       divs[i].withholdings = i /\ wheap[i] = <<>>
  /\ \A j \in 1..Len(withholdings) :
       /\ withholdings[j].withholdings = Len(divs) + j
       /\ wheap[Len(divs) + j] = <<>>

\* C13: calc_divs returns one record per input dividend, in the order of
\* the input; the withholdings of a record are exactly the input withholding
\* events of its symbol and date, in input order; with none of them the list
\* is empty and the withheld total is zero; the inputs are left as they were.
C13_JoinBySymbolAndDate ==
  /\ dpc = "done" =>
       /\ Len(res) = Len(divs)
       /\ \A i \in 1..Len(res) :
            /\ res[i].reason = divs[i].reason
            /\ res[i].date = divs[i].date
            /\ res[i].key = divs[i].key
            /\ res[i].symbol = divs[i].symbol
            /\ res[i].amount = divs[i].amount
            /\ Range(WithholdingsOf(res[i])) = SameSymbolAndDate(divs[i])
            /\ InInputOrder(WithholdingsOf(res[i]))
            /\ SameSymbolAndDate(divs[i]) = {} =>
                 /\ WithholdingsOf(res[i]) = <<>>
                 /\ withholdings_total(res[i]) = 0
  /\ dpc # "ready" => InputsAsLoaded

\* A report with a dividend that has two withholdings of its own, written
\* with and without a blank before the bracket, and none of another day.
C13_Witness ==
  /\ dpc = "done"
  /\ \E i \in 1..Len(res) :
       /\ Len(WithholdingsOf(res[i])) = 2
       /\ withholdings_total(res[i]) = 3
       /\ withholdings[1].key # withholdings[2].key
  /\ \E i \in 1..Len(res) : \E j \in 1..Len(withholdings) :
       /\ withholdings[j].symbol = res[i].symbol
       /\ withholdings[j].date # res[i].date
       /\ WithholdingsOf(res[i]) = <<>>
       /\ withholdings_total(res[i]) = 0

\* The records of the result that hold withholding j.
RecordsWith(j) ==
  {i \in 1..Len(res) : j \in Range(WithholdingsOf(res[i]))}

\* C14: every withholding event is in the withholdings of exactly one
\* returned record, or of none when no dividend has its symbol and date; no
\* withholding is counted in two records.
C14_OneRecordEach ==
  dpc = "done" =>
    \A j \in 1..Len(withholdings) :
       Cardinality(RecordsWith(j)) =
         IF \E i \in 1..Len(divs) : j \in SameSymbolAndDate(divs[i])
           THEN 1 ELSE 0

---------------------------------------------------------------------------
\* main: the sales in both currencies

\* The trades as in Init, and a file with a sample for each of the first
\* days, one rate a day.
InitReport ==
  /\ DivsIdle
  /\ ReportIdle
  /\ \E n \in 0..MaxTrades :
       \E qs \in [1..n -> Quantities], ss \in [1..n -> Symbols] :
         /\ trades = [i \in 1..n |-> trade_from_report_rec(ReportRec(i, qs[i], ss[i]), i)]
         /\ heap = [i \in 1..n |-> <<>>]
  /\ pc = "ready"
  /\ sales = <<>>
  /\ buyings = <<>>
  /\ si = 0
  /\ cands = <<>>
  /\ ci = 0
  /\ amount_to_find = 0
  /\ first = NoResult
  /\ RatesIdle
  /\ \E n \in 0..MaxSamples : feed = [i \in 1..n |-> FeedLine(i, i - 1)]

\* The dict after a call of get_usd_rub_exchange_rate_for_date: the file is
\* read when the dict is empty.
DictAfterCall(dict) == IF DOMAIN dict = {} THEN TableAfter(Len(feed)) ELSE dict

\* The date of the sale in place of the fragment's.
RateDate_of_sale(t, sold) == t.date

\* The date whose rate converts the cost of a fragment: sold.date
RateDate(t, sold) == sold.date

\* exp_usd after the loop over t.sold_buyings
RECURSIVE exp_usd(_)
exp_usd(solds) ==
  IF solds = <<>> THEN 0
  ELSE Head(solds).amount * Head(solds).price + exp_usd(Tail(solds))

\* exp_rub after the loop over t.sold_buyings
RECURSIVE exp_rub(_, _, _)
exp_rub(dict, t, solds) ==
  IF solds = <<>> THEN 0
  ELSE dict[d2key(RateDate(t, Head(solds)))] * Head(solds).amount * Head(solds).price
         + exp_rub(dict, t, Tail(solds))

\* to_rub_str: the amount in roubles that is printed for a trade.
to_rub(dict, t) == t.amount * t.price * dict[d2key(t.date)]

\* The fragments whose date has no rate in the dict.
WithoutRate(dict, solds) ==
  {k \in 1..Len(solds) : d2key(solds[k].date) \notin DOMAIN dict}

\* The fragments whose line is printed: all of them, or those before the
\* first one whose date has no rate.
SoldPrinted(dict, solds) ==
  IF WithoutRate(dict, solds) = {} THEN solds
  ELSE SubSeq(solds, 1,
         (CHOOSE k \in WithoutRate(dict, solds) :
            \A l \in WithoutRate(dict, solds) : k <= l) - 1)

\* What main prints of sale t up to the line "What was sold:" and in the
\* loop over the fragments.
Head_and_sold(dict, t, solds) ==
  [inc_rub |-> dict[d2key(t.date)] * t.amount * t.price,
   inc_usd |-> t.price * t.amount,
   sold |-> [k \in 1..Len(SoldPrinted(dict, solds)) |->
               to_rub(dict, SoldPrinted(dict, solds)[k])]]

\* The figures of sale t as main prints them, the Profit line included.
Figures(dict, t, solds) ==
  LET h == Head_and_sold(dict, t, solds)
  IN  [inc_rub |-> h.inc_rub,
       inc_usd |-> h.inc_usd,
       sold |-> h.sold,
       exp_usd |-> exp_usd(solds),
       exp_rub |-> exp_rub(dict, t, solds),
       profit_usd |-> h.inc_usd - exp_usd(solds),
       profit_rub |-> h.inc_rub - exp_rub(dict, t, solds)]

\* One turn of the loop over the sales do_the_thing returned.  The first
\* rate asked for fills the dict.  A sale whose date has no rate ends main
\* with a KeyError before anything of it is printed; a fragment whose date
\* has none ends main after the income of the sale and the lines of the
\* fragments before it have been printed, and before the Profit line.
ReportSale ==
  /\ pc = "returned"
  /\ ppc = "for_t"
  /\ ri <= Len(sales)
  /\ LET t == sales[ri]
         solds == heap[t.sold_buyings]
         dict == DictAfterCall(usd_rub_exchange_rate_for_date)
     IN  /\ usd_rub_exchange_rate_for_date' = dict
         /\ IF d2key(t.date) \notin DOMAIN dict
            THEN /\ ppc' = "raised"
                 /\ UNCHANGED <<ri, report>>
            ELSE IF WithoutRate(dict, solds) # {}
            THEN /\ report' = Append(report, Head_and_sold(dict, t, solds))
                 /\ ppc' = "raised"
                 /\ ri' = ri
            ELSE /\ report' = Append(report, Figures(dict, t, solds))
                 /\ ri' = ri + 1
                 /\ ppc' = "for_t"
  /\ UNCHANGED <<feed, rpc, query, li, prev, out>>
  /\ UNCHANGED <<mvars, dvars>>

NextReport == Next \/ ReportSale

SpecReport == InitReport /\ [][NextReport]_vars

---------------------------------------------------------------------------
\* Readings of the report

\* The buy lot a fragment was taken from.
LotOf(f) == trades[f.sold_buyings]

\* The sum, over a sale's fragments, of rate on the lot's date (if wanted)
\* times quantity times the lot's price.
RECURSIVE CostOf(_, _)
CostOf(frs, inRub) ==
  IF frs = <<>> THEN 0
  ELSE (IF inRub THEN LatestRate(d2key(LotOf(Head(frs)).date)) ELSE 1)
          * Head(frs).amount * LotOf(Head(frs)).price
       + CostOf(Tail(frs), inRub)

\* The Profit line of the sale has been printed.
Complete(rec) == "profit_rub" \in DOMAIN rec

\* C15: for each sale reported, the profit in the reporting currency is the
\* rate of the sale's date times the sale's quantity and price, less the sum
\* over its fragments of the rate of the buy lot's date times the fragment's
\* quantity and price; the profit in the trade currency is the same without
\* the rates; each fragment has the date and price of its lot.  The trades
\* differ in time and price, so a fragment never has those of the sale.
C15_PerLegConversion ==
  \A k \in 1..Len(report) :
     LET t == sales[k]
         frs == heap[t.sold_buyings]
     IN  /\ report[k].inc_rub = LatestRate(d2key(t.date)) * t.amount * t.price
         /\ Complete(report[k]) =>
              /\ report[k].profit_rub =
                   LatestRate(d2key(t.date)) * t.amount * t.price - CostOf(frs, TRUE)
              /\ report[k].profit_usd = t.amount * t.price - CostOf(frs, FALSE)
         /\ \A n \in 1..Len(report[k].sold) :
              report[k].sold[n] =
                LatestRate(d2key(LotOf(frs[n]).date)) * frs[n].amount * LotOf(frs[n]).price
         /\ \A n \in 1..Len(frs) :
              /\ LotOf(frs[n]).kind = "buy"
              /\ frs[n].date = LotOf(frs[n]).date
              /\ frs[n].price = LotOf(frs[n]).price
              /\ frs[n].date # t.date
              /\ frs[n].price # t.price

\* A reported sale of two fragments, one of them bought on an earlier day
\* than the sale, at another rate.
C15_Witness ==
  \E k \in 1..Len(report) :
     LET t == sales[k]
         frs == heap[t.sold_buyings]
     IN  /\ Complete(report[k])
         /\ Len(frs) = 2
         /\ frs[1].amount > 0 /\ frs[2].amount > 0
         /\ LatestRate(d2key(frs[1].date)) # LatestRate(d2key(t.date))
         /\ report[k].profit_rub # LatestRate(d2key(t.date)) * report[k].profit_usd

---------------------------------------------------------------------------
\* The pool of buy lots

\* The input trades that are buys of which some quantity has not been sold.
NotFullyConsumed ==
  {j \in 1..Len(trades) : trades[j].kind = "buy" /\ Consumed(j) < trades[j].amount}

\* No lot of the pool has a quantity below zero.
PoolNotNegative == \A k \in 1..Len(buyings) : buyings[k].amount >= 0

\* No lot of the pool has the quantity zero.
PoolWithoutZero == \A k \in 1..Len(buyings) : buyings[k].amount # 0

\* In one step, every lot of the pool was in the pool before with at least
\* the quantity it has now.
PoolNotIncreased ==
  \A k \in 1..Len(buyings') :
     \E l \in 1..Len(buyings) :
        /\ buyings[l].sold_buyings = buyings'[k].sold_buyings
        /\ buyings'[k].amount <= buyings[l].amount

\* The list returned: the lots not fully consumed, in the order of the
\* input, each with what is left of its original quantity.
PoolAsReturned ==
  /\ {buyings[k].sold_buyings : k \in 1..Len(buyings)} = NotFullyConsumed
  /\ \A k \in 1..Len(buyings) : \A l \in 1..Len(buyings) :
        k < l => buyings[k].sold_buyings < buyings[l].sold_buyings
  /\ \A k \in 1..Len(buyings) :
        /\ buyings[k].amount > 0
        /\ buyings[k].amount =
             trades[buyings[k].sold_buyings].amount - Consumed(buyings[k].sold_buyings)

\* C16: with every input quantity above zero, the quantity of a working buy
\* lot never increases and is never negative; after each sale has been
\* processed the pool has no lot of quantity zero; and the list returned is
\* exactly the lots not fully consumed, in input order, each with a quantity
\* above zero that is its original quantity less the fragments taken from it.
C16_PoolInvariant ==
  /\ [](AllPositive => PoolNotNegative)
  /\ [][(AllPositive /\ pc # "ready") => PoolNotIncreased]_vars
  /\ []((AllPositive /\ pc \in {"for_s", "returned", "raised"}) => PoolWithoutZero)
  /\ []((AllPositive /\ pc = "returned") => PoolAsReturned)

\* A call that has returned, with one lot sold whole and left out, and a
\* later lot sold in part and returned with the rest.
C16_Witness ==
  /\ AllPositive
  /\ pc = "returned"
  /\ \E j \in 1..Len(trades) :
       /\ trades[j].kind = "buy"
       /\ Consumed(j) = trades[j].amount
       /\ \A k \in 1..Len(buyings) : buyings[k].sold_buyings # j
  /\ \E k \in 1..Len(buyings) :
       /\ Consumed(buyings[k].sold_buyings) > 0
       /\ buyings[k].amount > 0

=============================================================================
